---- MODULE Spec2Model ----
(***************************************************************************)
(* Model of decode_debug.py: the decoder of the radio driver's circular    *)
(* debug log.  process_flags unpacks one 32-bit log word into a text line; *)
(* the module-level loop walks the ring buffer `log` from log_start.       *)
(*                                                                         *)
(* Numbers that the script combines bitwise are modelled as 32-bit         *)
(* vectors (bit i of the word at index i), because bit 31 matters and the  *)
(* script's inputs are 32-bit words.  Small results (the line number, the  *)
(* flag field) are converted to naturals where the script formats them.    *)
(***************************************************************************)
EXTENDS Integers, Sequences, FiniteSets, TLC

VARIABLES
    log_start,  \* the module constant log_start (line 4), here any start
    log,        \* the externally supplied buffer of LOG_SIZE words
    iterator,   \* line 51
    log_end,    \* line 52
    pc,         \* position of the script: "start", "loop", "done", "raised";
                \* of a lone call of process_flags: "call", "returned"
    exc,        \* the exception that ended the script, or "none"
    reads,      \* the buffer slots decoded so far, in order
    stdout,     \* the lines printed so far
    num,        \* the argument of the last call of process_flags
    out         \* the locals of the last call of process_flags

vars == <<log_start, log, iterator, log_end, pc, exc, reads, stdout, num, out>>

-----------------------------------------------------------------------------
(* Bounds of the model *)

\* the traversal is cut after this many loop iterations
MaxSteps == 514

\* input words of the decoder carry at most this many flag bits (besides a
\* few fixed dense patterns)
MaxBitsSet == 2

-----------------------------------------------------------------------------
(* Program constants *)

LOG_SIZE == 512

-----------------------------------------------------------------------------
(* 32-bit vectors and Python's integer operators on them *)

BitIdx == 0..31

\* the vector of a natural below 2^31
Bits(n) == [i \in BitIdx |-> IF i = 31 THEN 0 ELSE (n \div (2^i)) % 2]

RECURSIVE ValueFrom(_, _)
ValueFrom(b, i) == IF i > 30 THEN 0 ELSE b[i] * (2^i) + ValueFrom(b, i + 1)

\* the natural of a vector whose bit 31 is clear
Value(b) == ValueFrom(b, 0)

\* a & b
And(a, b) == [i \in BitIdx |-> a[i] * b[i]]

\* a | b
Or(a, b) == [i \in BitIdx |-> IF a[i] + b[i] > 0 THEN 1 ELSE 0]

\* a >> n
Shr(a, n) == [i \in BitIdx |-> IF i + n \in BitIdx THEN a[i + n] ELSE 0]

\* a << n, for results that fit 32 bits
Shl(a, n) == [i \in BitIdx |-> IF i - n \in BitIdx THEN a[i - n] ELSE 0]

\* a > 0, and the truth value of a, for a non-negative Python int
Positive(a) == \E i \in BitIdx : a[i] = 1

-----------------------------------------------------------------------------
(* str() and hex() of a non-negative int *)

DecDigit == <<"0", "1", "2", "3", "4", "5", "6", "7", "8", "9">>
HexDigit == <<"0", "1", "2", "3", "4", "5", "6", "7", "8", "9",
              "a", "b", "c", "d", "e", "f">>

RECURSIVE str(_)
str(n) == IF n < 10 THEN DecDigit[n + 1]
          ELSE str(n \div 10) \o DecDigit[(n % 10) + 1]

RECURSIVE HexDigits(_)
HexDigits(n) == IF n < 16 THEN HexDigit[n + 1]
                ELSE HexDigits(n \div 16) \o HexDigit[(n % 16) + 1]

hex(n) == "0x" \o HexDigits(n)

-----------------------------------------------------------------------------
(* process_flags *)

\* the flag table with RADIO_STATUS_STORE given the mask of the entry before
\* it, and the table without its RADIO_STATUS_SAMPLING entry
flagsRepeatedMask == <<
    [name |-> "RADIO_STATUS_RX_EN",            mask |-> 1],
    [name |-> "RADIO_STATUS_RX_RDY",           mask |-> 2],
    [name |-> "RADIO_STATUS_DISABLE",          mask |-> 4],
    [name |-> "RADIO_STATUS_DISABLED",         mask |-> 8],
    [name |-> "RADIO_STATUS_TX_EN",            mask |-> 16],
    [name |-> "RADIO_STATUS_TX_RDY",           mask |-> 32],
    [name |-> "RADIO_STATUS_TX_ST",            mask |-> 64],
    [name |-> "RADIO_STATUS_TX_END",           mask |-> 128],
    [name |-> "RADIO_STATUS_TRANSMIT",         mask |-> 256],
    [name |-> "RADIO_STATUS_FORWARD",          mask |-> 512],
    [name |-> "RADIO_STATUS_RECEIVING",        mask |-> 1024],
    [name |-> "RADIO_STATUS_STORE",            mask |-> 1024],
    [name |-> "RADIO_STATUS_DISCOVERING",      mask |-> 4096],
    [name |-> "RADIO_STATUS_SLEEPING",         mask |-> 8192],
    [name |-> "RADIO_STATUS_WAKE_CONFIGURED",  mask |-> 16384],
    [name |-> "RADIO_STATUS_EXPECT_RESPONSE",  mask |-> 32768],
    [name |-> "RADIO_STATUS_FIRST_PACKET",     mask |-> 65536],
    [name |-> "RADIO_STATUS_SAMPLING",         mask |-> 131072],
    [name |-> "RADIO_STATUS_DIRECTING",        mask |-> 262144],
    [name |-> "RADIO_STATUS_QUEUE_KEEP_ALIVE", mask |-> 524288] >>

flagsWithoutSampling == SubSeq(flagsRepeatedMask, 1, 11)
    \o << [name |-> "RADIO_STATUS_STORE", mask |-> 2048] >>
    \o SubSeq(flagsRepeatedMask, 13, 17)
    \o SubSeq(flagsRepeatedMask, 19, 20)

\* the flag table, in its declared order (lines 7-31); masks in decimal.
\* The source writes the entries as NAME = value inside braces; they are
\* read as the mapping "NAME": value that lines 45-47 use, which a Python
\* dict iterates in the order written.
flags == <<
    [name |-> "RADIO_STATUS_RX_EN",            mask |-> 1],
    [name |-> "RADIO_STATUS_RX_RDY",           mask |-> 2],
    [name |-> "RADIO_STATUS_DISABLE",          mask |-> 4],
    [name |-> "RADIO_STATUS_DISABLED",         mask |-> 8],
    [name |-> "RADIO_STATUS_TX_EN",            mask |-> 16],
    [name |-> "RADIO_STATUS_TX_RDY",           mask |-> 32],
    [name |-> "RADIO_STATUS_TX_ST",            mask |-> 64],
    [name |-> "RADIO_STATUS_TX_END",           mask |-> 128],
    [name |-> "RADIO_STATUS_TRANSMIT",         mask |-> 256],
    [name |-> "RADIO_STATUS_FORWARD",          mask |-> 512],
    [name |-> "RADIO_STATUS_RECEIVING",        mask |-> 1024],
    [name |-> "RADIO_STATUS_STORE",            mask |-> 2048],
    [name |-> "RADIO_STATUS_DISCOVERING",      mask |-> 4096],
    [name |-> "RADIO_STATUS_SLEEPING",         mask |-> 8192],
    [name |-> "RADIO_STATUS_WAKE_CONFIGURED",  mask |-> 16384],
    [name |-> "RADIO_STATUS_EXPECT_RESPONSE",  mask |-> 32768],
    [name |-> "RADIO_STATUS_FIRST_PACKET",     mask |-> 65536],
    [name |-> "RADIO_STATUS_SAMPLING",         mask |-> 131072],
    [name |-> "RADIO_STATUS_DIRECTING",        mask |-> 262144],
    [name |-> "RADIO_STATUS_QUEUE_KEEP_ALIVE", mask |-> 524288] >>

\* variants of the extraction lines, each a slip the claims must detect
LinenoOfUnmasked(n) == Value(Shr(n, 20))
LinenoOfShift19(n) == Value(Shr(And(n, Bits(2146435072)), 19))
IsSetOfBit30(n) == And(n, Shl(Bits(1), 30))
FlagTestOr(mask, logflags) == Positive(Or(Bits(mask), logflags))

\* lineno = (num & 0x7FF00000) >> 20            (line 33)
LinenoOf(n) == Value(Shr(And(n, Bits(2146435072)), 20))

\* isSet = num & (1 << 31)                      (line 34)
IsSetOf(n) == And(n, Shl(Bits(1), 31))

\* logflags = num & 0x000FFFFF                  (line 35)
LogflagsOf(n) == And(n, Bits(1048575))

\* the prefix chosen by `if isSet > 0`          (lines 39-42)
Prefix(isSet) == IF Positive(isSet) THEN "S: " ELSE "U: "

\* the condition `flags[flag] & logflags`       (line 46)
FlagTest(mask, logflags) == Positive(And(Bits(mask), logflags))

\* the loop `for flag in flags.keys()` from table position k on; acc holds
\* flag_str and the names appended to it so far (lines 45-47)
RECURSIVE FlagLoop(_, _, _)
FlagLoop(k, logflags, acc) ==
    IF k > Len(flags) THEN acc
    ELSE FlagLoop(k + 1, logflags,
             IF FlagTest(flags[k].mask, logflags)
             THEN [flag_str |-> acc.flag_str \o flags[k].name \o " ",
                   names    |-> Append(acc.names, flags[k].name)]
             ELSE acc)

\* the locals of process_flags(num) when it prints (lines 33-49); `prefix`
\* is flag_str as lines 39-42 leave it, `names` the list of the flag names
\* that line 47 appended to flag_str
process_flags(n) ==
    LET lineno   == LinenoOf(n)
        isSet    == IsSetOf(n)
        logflags == LogflagsOf(n)
        prefix   == Prefix(isSet)
        head     == prefix \o str(lineno) \o " "
                        \o hex(Value(logflags)) \o " "
        done     == FlagLoop(1, logflags, [flag_str |-> head, names |-> <<>>])
    IN  [lineno |-> lineno, isSet |-> isSet, logflags |-> logflags,
         prefix |-> prefix, names |-> done.names, flag_str |-> done.flag_str]

\* no call of process_flags made yet
NoCall == [lineno |-> 0, isSet |-> Bits(0), logflags |-> Bits(0),
           prefix |-> "", names |-> <<>>, flag_str |-> ""]

-----------------------------------------------------------------------------
(* Input words of the decoder *)

\* flag fields with at most k bits set
RECURSIVE FlagFields(_)
FlagFields(k) ==
    IF k = 0 THEN {0}
    ELSE LET prev == FlagFields(k - 1)
         IN  prev \cup UNION { { p + 2^i : i \in { j \in 0..19 : (p \div (2^j)) % 2 = 0 } }
                               : p \in prev }

\* sparse fields, and 0xFFFFF, 0xAAAAA, 0x55555, 0x80001, 0x40005
FlagSamples ==
    FlagFields(MaxBitsSet) \cup {1048575, 699050, 349525, 524289, 262149}

\* bits 20..31 of the sampled words: 0x000, 0x001, 0x014, 0x400, 0x7FF and
\* the same with bit 31 set (0x800, 0x801, 0x814, 0xC00, 0xFFF)
HighSamples == {0, 1, 20, 1024, 2047, 2048, 2049, 2068, 3072, 4095}

\* the word with high part hi (12 bits) and flag field lo (20 bits)
Word(hi, lo) == [i \in BitIdx |-> IF i < 20 THEN (lo \div (2^i)) % 2
                                  ELSE (hi \div (2^(i - 20))) % 2]

Words == { Word(hi, lo) : hi \in HighSamples, lo \in FlagSamples }

-----------------------------------------------------------------------------
(* The decoder alone: one call of process_flags on any sampled word *)

InitDecode ==
    /\ num \in Words
    /\ out = NoCall
    /\ stdout = <<>>
    /\ log_start = 0
    /\ log = <<>>
    /\ iterator = 0
    /\ log_end = 0
    /\ pc = "call"
    /\ exc = "none"
    /\ reads = <<>>

\* process_flags(num), printing its line (line 49)
Call ==
    /\ pc = "call"
    /\ out' = process_flags(num)
    /\ stdout' = Append(stdout, out'.flag_str)
    /\ pc' = "returned"
    /\ UNCHANGED <<log_start, log, iterator, log_end, exc, reads, num>>

NextDecode == Call

SpecDecode == InitDecode /\ [][NextDecode]_vars

-----------------------------------------------------------------------------
(* The buffer `log` *)

\* The script reads a global `log` that it does not define: a Python list of
\* LOG_SIZE 32-bit words supplied by whoever runs it.  The variable log names
\* one of these buffers; the buffer is never written.
LogBuffers == <<
    [i \in 0..(LOG_SIZE - 1) |-> Bits(0)],
    [i \in 0..(LOG_SIZE - 1) |-> Word((i * 7) % 4096, (i * 2053) % 1048576)] >>

\* indexing as in a language whose lists reject a negative index
InRangeNoNegative(i) == 0 <= i /\ i < LOG_SIZE

\* whether log[i] is an element of a list of LOG_SIZE elements, and which:
\* Python counts a negative index from the end of the list (line 55)
InRange(i) == -LOG_SIZE <= i /\ i < LOG_SIZE
Slot(i) == IF i < 0 THEN i + LOG_SIZE ELSE i

\* process_flags(log[i]) for every buffer and every slot i, tabulated
Decoded == [b \in DOMAIN LogBuffers |->
               [i \in 0..(LOG_SIZE - 1) |-> process_flags(LogBuffers[b][i])]]

-----------------------------------------------------------------------------
(* The traversal (lines 51-56) *)

\* the start indices tried: every valid one, and some outside the buffer
Starts == (0..(LOG_SIZE - 1))
              \cup {-LOG_SIZE - 1, -LOG_SIZE, -1, LOG_SIZE, LOG_SIZE + 1}

\* the index update without its wrap, a slip the claims must detect
NextIndexNoWrap(it) == it + 1
\* log_end = iterator - 1                        (line 52)
EndIndex(start) == start - 1

\* while iterator != log_end                     (line 54)
LoopGuard(it, end) == it /= end

\* iterator = (iterator + 1) % LOG_SIZE          (line 56)
NextIndex(it) == (it + 1) % LOG_SIZE

Init ==
    /\ log_start \in Starts
    /\ log \in DOMAIN LogBuffers
    /\ iterator = 0
    /\ log_end = 0
    /\ pc = "start"
    /\ exc = "none"
    /\ reads = <<>>
    /\ stdout = <<>>
    /\ num = Bits(0)
    /\ out = NoCall

\* lines 51-52
Setup ==
    /\ pc = "start"
    /\ iterator' = log_start
    /\ log_end' = EndIndex(iterator')
    /\ pc' = "loop"
    /\ UNCHANGED <<log_start, log, exc, reads, stdout, num, out>>

\* one iteration of the loop: lines 54-56 with log[iterator] in the list
LoopStep ==
    /\ pc = "loop"
    /\ LoopGuard(iterator, log_end)
    /\ InRange(iterator)
    /\ Len(reads) < MaxSteps
    /\ num' = LogBuffers[log][Slot(iterator)]
    /\ out' = Decoded[log][Slot(iterator)]
    /\ stdout' = Append(stdout, out'.flag_str)
    /\ reads' = Append(reads, iterator)
    /\ iterator' = NextIndex(iterator)
    /\ UNCHANGED <<log_start, log, log_end, pc, exc>>

\* line 55 with log[iterator] outside the list: IndexError ends the script
LoopRaise ==
    /\ pc = "loop"
    /\ LoopGuard(iterator, log_end)
    /\ ~InRange(iterator)
    /\ pc' = "raised"
    /\ exc' = "IndexError"
    /\ UNCHANGED <<log_start, log, iterator, log_end, reads, stdout, num, out>>

\* line 54 with the condition false: the script ends
LoopExit ==
    /\ pc = "loop"
    /\ ~LoopGuard(iterator, log_end)
    /\ pc' = "done"
    /\ UNCHANGED <<log_start, log, iterator, log_end, exc, reads, stdout, num, out>>

Next == Setup \/ LoopStep \/ LoopRaise \/ LoopExit

Spec == Init /\ [][Next]_vars

-----------------------------------------------------------------------------
(* Properties of the traversal, checked under Spec *)

ValidStart == log_start \in 0..(LOG_SIZE - 1)

\* C1: for a valid start the finished traversal has decoded exactly LOG_SIZE
\* slots, and the slot decoded at output position i (from 0) is
\* (log_start + i) mod LOG_SIZE, the slot before the start included.
C1_FullRevolution ==
    (pc = "done" /\ ValidStart) =>
        /\ Len(reads) = LOG_SIZE
        /\ Len(stdout) = LOG_SIZE
        /\ \A i \in 1..Len(reads) :
               Slot(reads[i]) = (log_start + (i - 1)) % LOG_SIZE

\* C2: for a valid start the loop terminates.  The loop is deterministic and
\* its condition reads only iterator, so it terminates exactly when it never
\* comes back, with its condition still true, to the iterator it started
\* from after at least one iteration.
C2_Terminates ==
    ~ ( /\ ValidStart
        /\ pc = "loop"
        /\ reads /= <<>>
        /\ iterator = log_start
        /\ LoopGuard(iterator, log_end) )

\* C3 as stated: a start outside 0..LOG_SIZE-1 decodes no slot and ends the
\* traversal in an InvalidArgument error.
C3_InvalidArgument ==
    (~ValidStart /\ pc /= "start") =>
        /\ reads = <<>>
        /\ stdout = <<>>
        /\ pc \in {"done", "raised"} => exc = "InvalidArgument"

\* C3 as amended: a start at or beyond LOG_SIZE, or below -LOG_SIZE, decodes
\* no slot and ends in the IndexError of the first read of the buffer, never
\* in InvalidArgument; a start in -LOG_SIZE..-1 is not rejected at all: the
\* first read decodes slot log_start + LOG_SIZE and no error is raised.
C3_IndexError ==
    (~ValidStart /\ pc /= "start") =>
        IF log_start >= LOG_SIZE \/ log_start < -LOG_SIZE
        THEN /\ reads = <<>>
             /\ stdout = <<>>
             /\ pc \in {"loop", "raised"}
             /\ pc = "loop" => ENABLED LoopRaise /\ ~ENABLED LoopStep
             /\ pc = "raised" => exc = "IndexError"
        ELSE /\ exc = "none"
             /\ pc = "loop"
             /\ reads = <<>> => ENABLED LoopStep
             /\ reads /= <<>> => Slot(reads[1]) = log_start + LOG_SIZE

\* the traversal started at LOG_SIZE has ended in its error
C3_Witness == log_start = LOG_SIZE /\ pc = "raised" /\ exc = "IndexError"

\* C9: for a valid start, the index used to read the buffer is within
\* 0..LOG_SIZE-1 in every state of the loop: iterator itself, and the index
\* of every read made (each read is the last read of some state), so that
\* no read is out of bounds or negative and none raises.
C9_ReadsInBounds ==
    (ValidStart /\ pc /= "start") =>
        /\ iterator \in 0..(LOG_SIZE - 1)
        /\ reads /= <<>> => reads[Len(reads)] \in 0..(LOG_SIZE - 1)
        /\ exc = "none"
        /\ pc /= "raised"

\* the traversal started at the script's own log_start has wrapped past the
\* end of the buffer
C9_Witness ==
    /\ log_start = 85
    /\ pc = "loop"
    /\ Len(reads) = LOG_SIZE - 85 + 1
    /\ reads[Len(reads)] = 0
    /\ iterator = 1

-----------------------------------------------------------------------------
(* Properties of process_flags, checked under SpecDecode *)

Returned == pc = "returned"

\* the word 0x80140005
Hex80140005 == Or(Bits(1310725), Shl(Bits(1), 31))

\* C4 as stated: 0x80140005 decodes to isSet, line number 20, flag bits 0x5
\* and the names RADIO_STATUS_RX_EN, RADIO_STATUS_DISABLE.
C4_Example ==
    (Returned /\ num = Hex80140005) =>
        /\ Positive(out.isSet)
        /\ out.lineno = 20
        /\ Value(out.logflags) = 5
        /\ out.names = <<"RADIO_STATUS_RX_EN", "RADIO_STATUS_DISABLE">>
        /\ out.flag_str = "S: 20 0x5 RADIO_STATUS_RX_EN RADIO_STATUS_DISABLE "
        /\ stdout = <<out.flag_str>>

\* C4 as amended: 0x80140005 decodes to isSet, line number 1, flag bits
\* 0x40005 and the names RADIO_STATUS_RX_EN, RADIO_STATUS_DISABLE,
\* RADIO_STATUS_DIRECTING in that order.
C4_ExampleAmended ==
    (Returned /\ num = Hex80140005) =>
        /\ Positive(out.isSet)
        /\ out.lineno = 1
        /\ Value(out.logflags) = 262149
        /\ out.names = <<"RADIO_STATUS_RX_EN", "RADIO_STATUS_DISABLE",
                         "RADIO_STATUS_DIRECTING">>
        /\ out.flag_str = "S: 1 0x40005 RADIO_STATUS_RX_EN "
               \o "RADIO_STATUS_DISABLE RADIO_STATUS_DIRECTING "
        /\ stdout = <<out.flag_str>>

\* 0x80140005 has been decoded
C4_Witness == Returned /\ num = Hex80140005 /\ Len(stdout) = 1

\* whether the bit of a one-bit mask within bits 0..19 is set in word w
MaskBitSet(mask, w) == \E b \in 0..19 : mask = 2^b /\ w[b] = 1

\* the table position of a flag name
TablePos(name) == CHOOSE k \in 1..Len(flags) : flags[k].name = name

\* C5: a flag name of the table is in the decoded output iff its mask bit is
\* set in bits 0..19 of the word; no name appears twice; the names appear in
\* the table's order.
C5_NamesIffBits ==
    Returned =>
        /\ \A k \in 1..Len(flags) :
               (\E j \in 1..Len(out.names) : out.names[j] = flags[k].name)
                   <=> MaskBitSet(flags[k].mask, num)
        /\ \A i, j \in 1..Len(out.names) :
               i < j => /\ out.names[i] /= out.names[j]
                        /\ TablePos(out.names[i]) < TablePos(out.names[j])

\* the word with the lowest and the highest flag has been decoded
C5_Witness ==
    /\ Returned
    /\ out.names = <<"RADIO_STATUS_RX_EN", "RADIO_STATUS_QUEUE_KEEP_ALIVE">>

\* word w with bit b inverted
Flip(w, b) == [w EXCEPT ![b] = 1 - w[b]]

\* C6: the line number is (w >> 20) & 0x7FF, lies in 0..2047, and is the
\* same for the words that differ from w in bit 31 or in one of bits 0..19.
C6_Lineno ==
    Returned =>
        /\ out.lineno = Value(And(Shr(num, 20), Bits(2047)))
        /\ out.lineno \in 0..2047
        /\ \A b \in (0..19) \cup {31} :
               LinenoOf(Flip(num, b)) = out.lineno

\* a word with bit 31 and flag bits set and the largest line number
C6_Witness ==
    /\ Returned
    /\ out.lineno = 2047
    /\ num[31] = 1
    /\ Positive(out.logflags)

\* C7: the table that a call of process_flags has used has 20 entries;
\* every mask is one bit wide and within bits 0..19 (0x1 to 0x80000); the
\* masks are pairwise disjoint.
C7_FlagTable ==
    Returned =>
        /\ Len(flags) = 20
        /\ \A k \in 1..Len(flags) :
               /\ \E b \in 0..19 : flags[k].mask = 2^b
               /\ flags[k].mask \in 1..524288
        /\ \A j, k \in 1..Len(flags) :
               j /= k =>
                   ~Positive(And(Bits(flags[j].mask), Bits(flags[k].mask)))

\* the highest mask of the table, 0x80000, has been decoded on its own
C7_Witness ==
    /\ Returned
    /\ Value(out.logflags) = 524288
    /\ out.names = <<"RADIO_STATUS_QUEUE_KEEP_ALIVE">>

\* C8: the line starts with "S: " when bit 31 of the word is set and with
\* "U: " otherwise, and the prefix is the same for the words that differ
\* from w in one of bits 0..30.
C8_Prefix ==
    Returned =>
        /\ out.prefix = IF num[31] = 1 THEN "S: " ELSE "U: "
        /\ \A b \in 0..30 : Prefix(IsSetOf(Flip(num, b))) = out.prefix

\* a word with bit 31 clear and every other bit set
C8_Witness ==
    /\ Returned
    /\ out.prefix = "U: "
    /\ \A b \in 0..30 : num[b] = 1

\* the number of bits set among bits lo..19 of word w
RECURSIVE SetBits(_, _)
SetBits(w, lo) == IF lo > 19 THEN 0 ELSE w[lo] + SetBits(w, lo + 1)

\* C10: the table names every one of bits 0..19, and the number of names in
\* the output is the number of bits set in bits 0..19 of the word.
C10_AllBitsNamed ==
    /\ \A b \in 0..19 : \E k \in 1..Len(flags) : flags[k].mask = 2^b
    /\ Returned => Len(out.names) = SetBits(num, 0)

\* the word with all twenty flag bits set has been decoded
C10_Witness == Returned /\ SetBits(num, 0) = 20 /\ Len(out.names) = 20

====
